---- MODULE Spec2Model ----
(***************************************************************************)
(* A model of the NUID generator of src/src/lib.rs: the generator core     *)
(* (NUID::new, randomize_prefix, reset_sequential, next), an owned         *)
(* generator driven by its single owner, and the process-wide generator    *)
(* GLOBAL_NUID behind its Mutex, called by several threads.                *)
(*                                                                         *)
(* A u64 is kept as four 16-bit limbs, least significant first, so that    *)
(* 62^10 and 2^64 are representable and every step of the arithmetic       *)
(* stays far below the 32-bit integers of the model checker.                *)
(***************************************************************************)
EXTENDS Integers, Sequences, FiniteSets, TLC

(***************************************************************************)
(* Program constants (lib.rs lines 26-35).                                 *)
(***************************************************************************)
BASE == 62
PRE_LEN == 12
TOTAL_LEN == 22
MIN_INC == 33
MAX_INC == 333

\* b"0123456789ABCDEFGHIJKLMNOPQRSTUVWXYZabcdefghijklmnopqrstuvwxyz" as bytes;
\* ALPHABET[i + 1] is the source's ALPHABET[i].
ALPHABET ==
    << 48, 49, 50, 51, 52, 53, 54, 55, 56, 57,
       65, 66, 67, 68, 69, 70, 71, 72, 73, 74, 75, 76, 77,
       78, 79, 80, 81, 82, 83, 84, 85, 86, 87, 88, 89, 90,
       97, 98, 99, 100, 101, 102, 103, 104, 105, 106, 107, 108, 109,
       110, 111, 112, 113, 114, 115, 116, 117, 118, 119, 120, 121, 122 >>

AlphabetBytes == {ALPHABET[i] : i \in 1..Len(ALPHABET)}

(***************************************************************************)
(* Unsigned 64-bit arithmetic on limbs.                                    *)
(***************************************************************************)
LIMB == 2^16

U64Values == [1..4 -> 0..(LIMB - 1)]

\* a small natural number (below 2^16) as a u64
U64(k) == <<k, 0, 0, 0>>

\* the carry out of the top limb of a + b: 1 exactly when a + b >= 2^64
AddCarry(a, b) ==
    LET c1 == (a[1] + b[1]) \div LIMB
        c2 == (a[2] + b[2] + c1) \div LIMB
        c3 == (a[3] + b[3] + c2) \div LIMB
    IN  (a[4] + b[4] + c3) \div LIMB

\* a + b modulo 2^64 (the wrapping sum of two u64)
AddU64(a, b) ==
    LET s1 == a[1] + b[1]
        s2 == a[2] + b[2] + (s1 \div LIMB)
        s3 == a[3] + b[3] + (s2 \div LIMB)
        s4 == a[4] + b[4] + (s3 \div LIMB)
    IN  <<s1 % LIMB, s2 % LIMB, s3 % LIMB, s4 % LIMB>>

\* a * m + c modulo 2^64, for small m and c
MulAddU64(a, m, c) ==
    LET s1 == a[1] * m + c
        s2 == a[2] * m + (s1 \div LIMB)
        s3 == a[3] * m + (s2 \div LIMB)
        s4 == a[4] * m + (s3 \div LIMB)
    IN  <<s1 % LIMB, s2 % LIMB, s3 % LIMB, s4 % LIMB>>

\* a < b
LessU64(a, b) ==
    \/ a[4] < b[4]
    \/ a[4] = b[4] /\ a[3] < b[3]
    \/ a[4] = b[4] /\ a[3] = b[3] /\ a[2] < b[2]
    \/ a[4] = b[4] /\ a[3] = b[3] /\ a[2] = b[2] /\ a[1] < b[1]

\* a / d (integer division) for a small divisor d
DivU64(a, d) ==
    LET r4 == a[4] % d
        t3 == r4 * LIMB + a[3]
        t2 == (t3 % d) * LIMB + a[2]
        t1 == (t2 % d) * LIMB + a[1]
    IN  <<t1 \div d, t2 \div d, t3 \div d, a[4] \div d>>

\* a % d for a small divisor d
ModU64(a, d) ==
    LET r4 == a[4] % d
        r3 == (r4 * LIMB + a[3]) % d
        r2 == (r3 * LIMB + a[2]) % d
    IN  (r2 * LIMB + a[1]) % d

\* the u64 written as a decimal literal in groups of three digits, most
\* significant group first
RECURSIVE DecU64(_)
DecU64(gs) ==
    IF gs = <<>> THEN U64(0)
    ELSE MulAddU64(DecU64(SubSeq(gs, 1, Len(gs) - 1)), 1000, gs[Len(gs)])

\* 839_299_365_868_340_224
MAX_SEQ == DecU64(<<839, 299, 365, 868, 340, 224>>)

(***************************************************************************)
(* The build target: `self.seq as usize` keeps the low 32 bits of the      *)
(* sequence on a target with 32-bit pointers and all 64 on a 64-bit one.   *)
(***************************************************************************)
UsizeWidths == {32, 64}

AsUsize(x, bits) == IF bits = 64 THEN x ELSE <<x[1], x[2], 0, 0>>

\* a - b modulo 2^64
SubU64(a, b) ==
    LET d1 == a[1] - b[1]
        b1 == IF d1 < 0 THEN 1 ELSE 0
        d2 == a[2] - b[2] - b1
        b2 == IF d2 < 0 THEN 1 ELSE 0
        d3 == a[3] - b[3] - b2
        b3 == IF d3 < 0 THEN 1 ELSE 0
        d4 == a[4] - b[4] - b3
    IN  <<d1 % LIMB, d2 % LIMB, d3 % LIMB, d4 % LIMB>>

(***************************************************************************)
(* The generator core: struct NUID and its methods, as functions of the    *)
(* generator's value and of what the random sources return.                *)
(***************************************************************************)

\* seeded fault: the sentinel sequence forgotten (seq: 0)
NUID_new_seq_zero ==
    [pre |-> [i \in 1..PRE_LEN |-> 0], seq |-> U64(0), inc |-> U64(0)]

\* NUID::new(): pre = [0; PRE_LEN], seq = MAX_SEQ, inc = 0
NUID_new == [pre |-> [i \in 1..PRE_LEN |-> 0], seq |-> MAX_SEQ, inc |-> U64(0)]

\* seeded fault: self.pre[i] = n, the sample stored as it comes
prefix_symbol_direct(n) == n

\* ALPHABET[n as usize % BASE], the symbol stored for sample n
prefix_symbol(n) == ALPHABET[(n % BASE) + 1]

\* randomize_prefix, the loop up to and excluding index k (0-based): the
\* sample n of position i is stored as ALPHABET[n as usize % BASE]
randomize_prefix_upto(nu, samples, k) ==
    [nu EXCEPT !.pre = [i \in 1..PRE_LEN |->
        IF i <= k THEN prefix_symbol(samples[i]) ELSE nu.pre[i]]]

\* seeded fault: the drawn symbols never stored in self.pre
randomize_prefix_discarded(nu, samples) == nu

\* randomize_prefix with OsRng delivering `samples`
randomize_prefix(nu, samples) == randomize_prefix_upto(nu, samples, PRE_LEN)

\* seeded fault: the increment not drawn again
reset_sequential_keeps_inc(nu, s, i) == [nu EXCEPT !.seq = s]

\* seeded fault: the sequence drawn with gen::<u64>(), here its largest value
reset_sequential_unbounded(nu, s, i) ==
    [nu EXCEPT !.seq = <<LIMB - 1, LIMB - 1, LIMB - 1, LIMB - 1>>, !.inc = U64(i)]

\* reset_sequential with thread_rng delivering s for 0..MAX_SEQ and i for
\* MIN_INC..MAX_INC
reset_sequential(nu, s, i) == [nu EXCEPT !.seq = s, !.inc = U64(i)]

\* self.seq += self.inc, the wrapping sum of a build without overflow checks
add_inc(nu) == [nu EXCEPT !.seq = AddU64(nu.seq, nu.inc)]

\* seeded fault: self.seq > MAX_SEQ
seq_exhausted_strict(nu) == LessU64(MAX_SEQ, nu.seq)

\* seeded fault: self.seq < MAX_SEQ
seq_exhausted_inverted(nu) == LessU64(nu.seq, MAX_SEQ)

\* self.seq >= MAX_SEQ
seq_exhausted(nu) == ~LessU64(nu.seq, MAX_SEQ)

\* lines 107-111 of next: n digits of l, least significant digit in the last
\* slot, each step taking l % BASE and then dividing l by BASE
Digits[a \in U64Values \X (0..TOTAL_LEN)] ==
    IF a[2] = 0 THEN <<>>
    ELSE Append(Digits[<<DivU64(a[1], BASE), a[2] - 1>>],
                ALPHABET[ModU64(a[1], BASE) + 1])

encode(l, n) == Digits[<<l, n>>]

\* seeded fault: the digits written in front of the prefix
fill_swapped(pre, l) == encode(l, TOTAL_LEN - PRE_LEN) \o pre

\* lines 103-111 of next: the buffer holds the prefix, then the digits of l
fill(pre, l) == pre \o encode(l, TOTAL_LEN - PRE_LEN)

\* lines 101-114 of next: the buffer built from the generator as it stands
render(nu, bits) == fill(nu.pre, AsUsize(nu.seq, bits))

(***************************************************************************)
(* What the random sources can return, cut down to a few values each.      *)
(***************************************************************************)

\* bytes drawn by the Alphanumeric distribution: '0' and 'z'
SampleChoices == {48, 122}

\* the PRE_LEN samples of one randomize_prefix: "0z0z0z0z0z0z", "z0z0z0z0z0z0"
PrefixSamples ==
    {[i \in 1..PRE_LEN |-> IF i % 2 = 1 THEN p[1] ELSE p[2]] :
        p \in {q \in SampleChoices \X SampleChoices : q[1] # q[2]}}

\* seeded fault: gen_range(0..=MAX_SEQ)
SeqDraws_inclusive == {U64(0), MAX_SEQ}

\* gen_range(0..MAX_SEQ) on an owned generator: 0, 2^32 - 33, MAX_SEQ - 34,
\* MAX_SEQ - 33 and MAX_SEQ - 1
SeqDraws ==
    {s \in {U64(0), SubU64(<<0, 0, 1, 0>>, U64(MIN_INC)),
            SubU64(MAX_SEQ, U64(MIN_INC + 1)), SubU64(MAX_SEQ, U64(MIN_INC)),
            SubU64(MAX_SEQ, U64(1))} :
        LessU64(s, MAX_SEQ)}

\* seeded fault: gen_range(0..=MAX_SEQ) on the shared generator
SharedSeqDraws_inclusive == {U64(0), MAX_SEQ}

\* gen_range(0..MAX_SEQ) on the shared generator: 0, 2^32 - 33 and MAX_SEQ - 1
SharedSeqDraws ==
    {s \in {U64(0), SubU64(<<0, 0, 1, 0>>, U64(MIN_INC)),
            SubU64(MAX_SEQ, U64(1))} :
        LessU64(s, MAX_SEQ)}

\* seeded fault: gen_range(MIN_INC..=MAX_INC)
IncDraws_inclusive == {MIN_INC, MAX_INC}

\* gen_range(MIN_INC..MAX_INC): the smallest and the largest increment
IncDraws == {i \in {MIN_INC, MAX_INC - 1} : MIN_INC <= i /\ i < MAX_INC}

\* how many prefix bytes a rollover has written when a random source fails:
\* OsRng at the first or second sample, or thread_rng after the whole prefix
PanicPoints == {0, 1, PRE_LEN}

\* the outcomes of `self.seq += self.inc`: a sum that does not fit a u64
\* wraps in a build without overflow checks and panics in one with them
AddOutcomes(nu) ==
    IF AddCarry(nu.seq, nu.inc) = 1 THEN {"wrap", "panic"} ELSE {"sum"}

(***************************************************************************)
(* Bounds of the model.                                                    *)
(***************************************************************************)
\* threads calling the module-level next()
NumThreads == 2
\* calls of the module-level next() started in one run, all threads together
MaxCalls == 2
\* calls of next() an owner makes on its own generator
MaxOwnedCalls == 3

Threads == 1..NumThreads
NoThread == 0

(***************************************************************************)
(* State.                                                                  *)
(*   usizeBits    the pointer width of the build target                    *)
(*   usage        what the run exercises: an owned generator ("owned") or *)
(*                the process-wide one ("shared"); the two share no state  *)
(*   n            a generator held by a single owner (let mut n = NUID::new()) *)
(*   nCalls       calls of n.next() so far                                 *)
(*   nDead        the owner panicked inside a call                         *)
(*   nFixture     the test module assigned n.seq directly                  *)
(*   last         the owner's last operation on n: its name, n before it,  *)
(*                whether it rolled over, what was drawn, the identifier   *)
(*   GLOBAL_NUID  the generator inside the static Mutex                    *)
(*   holder       the thread holding the Mutex, or NoThread                *)
(*   poisoned     the Mutex's poison flag                                  *)
(*   pc           where each thread is in next()                           *)
(*   panic        why a dead thread panicked                               *)
(*   l            each thread's local `seq`/`l` of NUID::next              *)
(*   buffer       each thread's local `buffer` of NUID::next               *)
(*   snap         GLOBAL_NUID right after the thread's own increment and   *)
(*                rollover (history, read by no action)                    *)
(*   adds         increments the thread's current call has performed       *)
(*   epoch        rollovers GLOBAL_NUID has completed                      *)
(*   started      calls of the module-level next() started so far          *)
(*   returned     the identifiers returned so far, in order of return      *)
(***************************************************************************)
VARIABLES usizeBits, usage, n, nCalls, nDead, nFixture, last,
          GLOBAL_NUID, holder, poisoned, pc, panic, l, buffer, snap, adds,
          epoch, started, returned

ownedVars == <<n, nCalls, nDead, nFixture, last>>
globalVars == <<GLOBAL_NUID, holder, poisoned, pc, panic, l, buffer, snap,
                adds, epoch, started, returned>>
buildVars == <<usizeBits, usage>>
vars == <<buildVars, ownedVars, globalVars>>

\* who drives the generator: its owner for a bounded number of calls
\* ("owned"), its owner calling without end ("loop"), or threads through
\* GLOBAL_NUID ("shared")
OwnerUsages == {"owned", "loop"}

\* the owner may make one more call of next()
CallAllowed == usage = "loop" \/ nCalls < MaxOwnedCalls

\* the call counter, which stops counting at MaxOwnedCalls
Counted(c) == IF c < MaxOwnedCalls THEN c + 1 ELSE c

\* gen_range(0..MAX_SEQ) of an owner calling without end: MAX_SEQ - 100 and
\* MAX_SEQ - 34, both a few calls away from the next rollover
LoopSeqDraws ==
    {s \in {SubU64(MAX_SEQ, U64(100)), SubU64(MAX_SEQ, U64(MIN_INC + 1))} :
        LessU64(s, MAX_SEQ)}

OwnerSeqDraws == IF usage = "loop" THEN LoopSeqDraws ELSE SeqDraws

NoDraw == [samples |-> <<>>, seq |-> <<>>, inc |-> 0]

Op(name, before, rolled, drawn, id) ==
    [op |-> name, before |-> before, rolled |-> rolled, drawn |-> drawn, id |-> id]

Init ==
    /\ usizeBits \in UsizeWidths
    /\ usage \in OwnerUsages \cup {"shared"}
    /\ n = NUID_new
    /\ nCalls = 0
    /\ nDead = FALSE
    /\ nFixture = FALSE
    /\ last = Op("new", NUID_new, FALSE, NoDraw, <<>>)
    /\ GLOBAL_NUID = NUID_new
    /\ holder = NoThread
    /\ poisoned = FALSE
    /\ pc = [t \in Threads |-> "idle"]
    /\ panic = [t \in Threads |-> "none"]
    /\ l = [t \in Threads |-> U64(0)]
    /\ buffer = [t \in Threads |-> [i \in 1..TOTAL_LEN |-> 0]]
    /\ snap = [t \in Threads |-> NUID_new]
    /\ adds = [t \in Threads |-> 0]
    /\ epoch = 0
    /\ started = 0
    /\ returned = <<>>

(***************************************************************************)
(* An owned generator: each action is one whole call by the owner.         *)
(***************************************************************************)

\* seeded fault: the increment drawn anew by every call, rollover or not
OwnedNextPlain_redraws ==
    /\ usage \in OwnerUsages
    /\ ~nDead
    /\ CallAllowed
    /\ ~seq_exhausted(add_inc(n))
    /\ \E i \in IncDraws :
          LET after == reset_sequential(add_inc(n), add_inc(n).seq, i)
          IN  /\ n' = after
              /\ last' = Op("next", n, FALSE, NoDraw, render(after, usizeBits))
    /\ nCalls' = Counted(nCalls)
    /\ UNCHANGED <<buildVars, nDead, nFixture, globalVars>>

\* n.next() returning without a rollover: lines 93-115 in one step
OwnedNextPlain ==
    /\ usage \in OwnerUsages
    /\ ~nDead
    /\ CallAllowed
    /\ \E o \in AddOutcomes(n) \ {"panic"} :
          /\ ~seq_exhausted(add_inc(n))
          /\ n' = add_inc(n)
          /\ last' = Op("next", n, FALSE, NoDraw, render(add_inc(n), usizeBits))
    /\ nCalls' = Counted(nCalls)
    /\ UNCHANGED <<buildVars, nDead, nFixture, globalVars>>

\* n.next() returning after a rollover: lines 93-115 in one step
OwnedNextRollover ==
    /\ usage \in OwnerUsages
    /\ ~nDead
    /\ CallAllowed
    /\ \E o \in AddOutcomes(n) \ {"panic"} :
          /\ seq_exhausted(add_inc(n))
          /\ \E samples \in PrefixSamples, s \in OwnerSeqDraws, i \in IncDraws :
                LET after == reset_sequential(
                                 randomize_prefix(add_inc(n), samples), s, i)
                IN  /\ n' = after
                    /\ last' = Op("next", n, TRUE,
                                  [samples |-> samples, seq |-> s, inc |-> i],
                                  render(after, usizeBits))
    /\ nCalls' = Counted(nCalls)
    /\ UNCHANGED <<buildVars, nDead, nFixture, globalVars>>

\* n.next() panicking: the sum overflows in a build with overflow checks, or a
\* random source fails during the rollover after k prefix bytes were written
OwnedNextPanics ==
    /\ usage \in OwnerUsages
    /\ ~nDead
    /\ CallAllowed
    /\ \E o \in AddOutcomes(n) :
          IF o = "panic"
          THEN n' = n
          ELSE /\ seq_exhausted(add_inc(n))
               /\ \E samples \in PrefixSamples, k \in PanicPoints :
                     n' = randomize_prefix_upto(add_inc(n), samples, k)
    /\ last' = Op("panic", n, seq_exhausted(add_inc(n)), NoDraw, <<>>)
    /\ nDead' = TRUE
    /\ nCalls' = Counted(nCalls)
    /\ UNCHANGED <<buildVars, nFixture, globalVars>>

\* n.randomize_prefix(), the public method called by the owner
OwnedRandomizePrefix ==
    /\ usage \in OwnerUsages
    /\ ~nDead
    /\ \E samples \in PrefixSamples :
          /\ n' = randomize_prefix(n, samples)
          /\ last' = Op("randomize_prefix", n, FALSE,
                        [samples |-> samples, seq |-> <<>>, inc |-> 0], <<>>)
    /\ UNCHANGED <<buildVars, nCalls, nDead, nFixture, globalVars>>

\* the test module's `n.seq = MAX_SEQ` and `n.seq = 1` on a new generator
TestSetSeq ==
    /\ usage = "owned"
    /\ last.op = "new"
    /\ \E v \in {MAX_SEQ, U64(1)} :
          /\ n' = [n EXCEPT !.seq = v]
          /\ last' = Op("set_seq", n, FALSE, NoDraw, <<>>)
    /\ nFixture' = TRUE
    /\ UNCHANGED <<buildVars, nCalls, nDead, globalVars>>

(***************************************************************************)
(* The process-wide generator: pub fn next() is                            *)
(*     GLOBAL_NUID.lock().unwrap().next()                                  *)
(* A thread is "idle" outside next(), at "lock" while blocked in lock(),   *)
(* then inside NUID::next holding the guard: "add" (line 96), "prefix"     *)
(* (line 98), "reset" (line 99), "read" (line 101), "fill" (lines          *)
(* 103-111), "unlock" (the return, where the guard is dropped); "dead"     *)
(* after a panic.                                                          *)
(***************************************************************************)
InCore == {"add", "prefix", "reset", "read", "fill", "unlock"}

\* seeded fault: the generator reached without taking the lock
lock_never_checked == TRUE

\* Mutex::lock can hand out the guard: no thread holds the lock
lock_available == holder = NoThread

\* seeded fault: the guard taken out of the PoisonError instead of unwrapping
poison_ignored == FALSE

\* Result::unwrap on what lock() returned: Err(PoisonError) when the flag is set
unwrap_panics == poisoned

\* seeded fault: the guard leaked instead of dropped
guard_leaked(h, t) == h

\* the Mutex after thread t drops its guard
guard_dropped(h, t) == IF h = t THEN NoThread ELSE h

\* a thread enters the module-level next()
Call(t) ==
    /\ usage = "shared"
    /\ pc[t] = "idle"
    /\ started < MaxCalls
    /\ started' = started + 1
    /\ pc' = [pc EXCEPT ![t] = "lock"]
    /\ adds' = [adds EXCEPT ![t] = 0]
    /\ UNCHANGED <<buildVars, ownedVars, GLOBAL_NUID, holder, poisoned, panic,
                   l, buffer, snap, epoch, returned>>

\* GLOBAL_NUID.lock().unwrap(): blocks while the lock is held; panics on a
\* poisoned lock (dropping the guard the error carries); else holds the guard
Acquire(t) ==
    /\ pc[t] = "lock"
    /\ lock_available
    /\ IF unwrap_panics
       THEN /\ pc' = [pc EXCEPT ![t] = "dead"]
            /\ panic' = [panic EXCEPT ![t] = "poison"]
            /\ UNCHANGED holder
       ELSE /\ pc' = [pc EXCEPT ![t] = "add"]
            /\ holder' = t
            /\ UNCHANGED panic
    /\ UNCHANGED <<buildVars, ownedVars, GLOBAL_NUID, poisoned, l, buffer,
                   snap, adds, epoch, started, returned>>

\* a panic of thread t inside NUID::next: unwinding drops the guard, which
\* poisons the Mutex and unlocks it
Unwind(t, why) ==
    /\ pc' = [pc EXCEPT ![t] = "dead"]
    /\ panic' = [panic EXCEPT ![t] = why]
    /\ poisoned' = TRUE
    /\ holder' = guard_dropped(holder, t)

\* line 96, self.seq += self.inc, and the test of line 97
StepAdd(t) ==
    /\ pc[t] = "add"
    /\ \E o \in AddOutcomes(GLOBAL_NUID) :
          IF o = "panic"
          THEN /\ Unwind(t, "overflow")
               /\ UNCHANGED <<GLOBAL_NUID, snap, adds>>
          ELSE /\ GLOBAL_NUID' = add_inc(GLOBAL_NUID)
               /\ adds' = [adds EXCEPT ![t] = @ + 1]
               /\ IF seq_exhausted(GLOBAL_NUID')
                  THEN /\ pc' = [pc EXCEPT ![t] = "prefix"]
                       /\ UNCHANGED snap
                  ELSE /\ pc' = [pc EXCEPT ![t] = "read"]
                       /\ snap' = [snap EXCEPT ![t] = GLOBAL_NUID']
               /\ UNCHANGED <<holder, poisoned, panic>>
    /\ UNCHANGED <<buildVars, ownedVars, l, buffer, epoch, started, returned>>

\* line 98, self.randomize_prefix()
StepPrefix(t) ==
    /\ pc[t] = "prefix"
    /\ \E samples \in PrefixSamples :
          /\ GLOBAL_NUID' = randomize_prefix(GLOBAL_NUID, samples)
          /\ pc' = [pc EXCEPT ![t] = "reset"]
    /\ UNCHANGED <<buildVars, ownedVars, holder, poisoned, panic, l, buffer,
                   snap, adds, epoch, started, returned>>

\* line 99, self.reset_sequential()
StepReset(t) ==
    /\ pc[t] = "reset"
    /\ \E s \in SharedSeqDraws, i \in IncDraws :
          /\ GLOBAL_NUID' = reset_sequential(GLOBAL_NUID, s, i)
          /\ snap' = [snap EXCEPT ![t] = GLOBAL_NUID']
    /\ pc' = [pc EXCEPT ![t] = "read"]
    /\ epoch' = epoch + 1
    /\ UNCHANGED <<buildVars, ownedVars, holder, poisoned, panic, l, buffer,
                   adds, started, returned>>

\* lines 98-99 with a random source failing: OsRng after k < PRE_LEN prefix
\* bytes, or thread_rng once the prefix is written
StepRolloverPanics(t) ==
    /\ pc[t] \in {"prefix", "reset"}
    /\ IF pc[t] = "prefix"
       THEN \E samples \in PrefixSamples, k \in PanicPoints \ {PRE_LEN} :
               GLOBAL_NUID' = randomize_prefix_upto(GLOBAL_NUID, samples, k)
       ELSE UNCHANGED GLOBAL_NUID
    /\ Unwind(t, "rng")
    /\ UNCHANGED <<buildVars, ownedVars, l, buffer, snap, adds, epoch, started,
                   returned>>

\* line 101, let seq: usize = self.seq as usize (and line 107, let mut l = seq)
StepRead(t) ==
    /\ pc[t] = "read"
    /\ l' = [l EXCEPT ![t] = AsUsize(GLOBAL_NUID.seq, usizeBits)]
    /\ pc' = [pc EXCEPT ![t] = "fill"]
    /\ UNCHANGED <<buildVars, ownedVars, GLOBAL_NUID, holder, poisoned, panic,
                   buffer, snap, adds, epoch, started, returned>>

\* lines 103-111: the prefix copied from self.pre, then the digits of l
StepFill(t) ==
    /\ pc[t] = "fill"
    /\ buffer' = [buffer EXCEPT ![t] = fill(GLOBAL_NUID.pre, l[t])]
    /\ pc' = [pc EXCEPT ![t] = "unlock"]
    /\ UNCHANGED <<buildVars, ownedVars, GLOBAL_NUID, holder, poisoned, panic,
                   l, snap, adds, epoch, started, returned>>

\* line 114 and the end of line 43: NUIDStr(buffer) is returned and the guard
\* dropped
Return(t) ==
    /\ pc[t] = "unlock"
    /\ holder' = guard_dropped(holder, t)
    /\ returned' = Append(returned,
                          [id |-> buffer[t], by |-> t, gen |-> snap[t],
                           epoch |-> epoch, adds |-> adds[t]])
    /\ pc' = [pc EXCEPT ![t] = "idle"]
    /\ UNCHANGED <<buildVars, ownedVars, GLOBAL_NUID, poisoned, panic, l,
                   buffer, snap, adds, epoch, started>>

Next ==
    \/ OwnedNextPlain
    \/ OwnedNextRollover
    \/ OwnedNextPanics
    \/ OwnedRandomizePrefix
    \/ TestSetSeq
    \/ \E t \in Threads :
          \/ Call(t)
          \/ Acquire(t)
          \/ StepAdd(t)
          \/ StepPrefix(t)
          \/ StepReset(t)
          \/ StepRolloverPanics(t)
          \/ StepRead(t)
          \/ StepFill(t)
          \/ Return(t)

Spec == Init /\ [][Next]_vars

\* inside NUID::next a running thread keeps taking its steps (a random source
\* need never fail), and the lock is granted to a thread that keeps asking
Progress(t) ==
    \/ StepAdd(t)
    \/ StepPrefix(t)
    \/ StepReset(t)
    \/ StepRead(t)
    \/ StepFill(t)
    \/ Return(t)

\* a next() of the owner that returns
OwnedNextReturns == OwnedNextPlain \/ OwnedNextRollover

FairSpec ==
    /\ Spec
    /\ \A t \in Threads : WF_vars(Progress(t)) /\ SF_vars(Acquire(t))
    /\ WF_vars(OwnedNextReturns)

(***************************************************************************)
(* Properties.                                                             *)
(***************************************************************************)
InAlphabet(id) == \A i \in DOMAIN id : id[i] \in AlphabetBytes

Prefix(id) == SubSeq(id, 1, PRE_LEN)

\* the owner's last operation was a next() that returned
OwnerGotId == last.op = "next"

\* C1: every one of the 22 bytes of every identifier returned by next(), on a
\* generator made by NUID::new() and driven through its public methods and on
\* the shared generator, is a symbol of the alphabet 0-9A-Za-z
C1_AlphabetInvariant ==
    /\ (OwnerGotId /\ ~nFixture) =>
          (DOMAIN last.id = 1..TOTAL_LEN /\ InAlphabet(last.id))
    /\ \A k \in 1..Len(returned) :
          DOMAIN returned[k].id = 1..TOTAL_LEN /\ InAlphabet(returned[k].id)

\* the first next() of a new generator, whose prefix is the all-zero sentinel,
\* has returned
C1_Witness ==
    OwnerGotId /\ ~nFixture /\ last.before.pre = NUID_new.pre /\ nCalls = 1

C3_MutualExclusion ==
    /\ Cardinality({t \in Threads : pc[t] \in InCore}) <= 1
    /\ \A t \in Threads : pc[t] \in InCore => holder = t

\* one thread is inside NUID::next while another is blocked in lock()
C3_Witness ==
    \E t \in Threads, u \in Threads :
        pc[t] \in {"prefix", "reset", "read", "fill"} /\ pc[u] = "lock"

\* the generator after one more NUID::next, as far as the code fixes it: the
\* sum when no rollover is due, else a drawn prefix, sequence and increment
SequentialStep(g1, e1, g2, e2) ==
    IF seq_exhausted(add_inc(g1))
    THEN /\ e2 = e1 + 1
         /\ LessU64(g2.seq, MAX_SEQ)
         /\ \E i \in IncDraws : g2.inc = U64(i)
         /\ g2.pre \in {randomize_prefix(g1, s).pre : s \in PrefixSamples}
    ELSE g2 = add_inc(g1) /\ e2 = e1

\* C4: every identifier returned to a thread is prefix ++ digits of the shared
\* generator at one single state, the one right after that call's own
\* increment and rollover, and the states of successive returns follow each
\* other by one NUID::next each, starting from NUID::new()
C4_NoTornIdentifier ==
    /\ \A k \in 1..Len(returned) :
          /\ returned[k].id = render(returned[k].gen, usizeBits)
          /\ SequentialStep(IF k = 1 THEN NUID_new ELSE returned[k - 1].gen,
                            IF k = 1 THEN 0 ELSE returned[k - 1].epoch,
                            returned[k].gen, returned[k].epoch)
    /\ \A t \in Threads :
          pc[t] = "unlock" => buffer[t] = render(snap[t], usizeBits)

\* two threads have each been returned an identifier
C4_Witness ==
    /\ Len(returned) = 2
    /\ returned[1].by # returned[2].by
    /\ returned[1].id # returned[2].id

ZeroPrefix == NUID_new.pre

\* C5: the first next() on a generator as NUID::new() returns it rolls over
\* before it emits: afterwards no prefix byte is the sentinel's zero, the
\* sequence and the increment are the freshly drawn values, and the identifier
\* starts with the new prefix
C5_FreshFirstCall ==
    /\ (OwnerGotId /\ last.before = NUID_new) =>
          /\ last.rolled
          /\ \A i \in 1..PRE_LEN : n.pre[i] # 0
          /\ n.seq = last.drawn.seq /\ LessU64(n.seq, MAX_SEQ)
          /\ n.inc = U64(last.drawn.inc)
          /\ MIN_INC <= last.drawn.inc /\ last.drawn.inc < MAX_INC
          /\ n.seq # last.before.seq /\ n.inc # last.before.inc
          /\ Prefix(last.id) = n.pre
    /\ Len(returned) >= 1 =>
          /\ returned[1].epoch = 1
          /\ \A i \in 1..PRE_LEN : returned[1].id[i] # 0

\* a first call on a new generator has returned
C5_Witness == OwnerGotId /\ last.before = NUID_new /\ ~nFixture

\* sequence + increment < MAX_SEQ, as numbers
SumBelowMax(nu) ==
    AddCarry(nu.seq, nu.inc) = 0 /\ LessU64(AddU64(nu.seq, nu.inc), MAX_SEQ)

\* C6: from a state with sequence + increment < MAX_SEQ one next() leaves the
\* prefix and the increment as they were and sets the sequence to its old
\* value plus the increment
C6_NoSpuriousRollover ==
    (OwnerGotId /\ SumBelowMax(last.before)) =>
        /\ ~last.rolled
        /\ n.pre = last.before.pre
        /\ n.inc = last.before.inc
        /\ n.seq = AddU64(last.before.seq, last.before.inc)

\* a call from a drawn state below the bound has returned
C6_Witness ==
    /\ OwnerGotId /\ ~nFixture
    /\ SumBelowMax(last.before)
    /\ last.before.inc # U64(0)

\* C7, as claimed: from any state whose sequence is MAX_SEQ one next() rolls
\* over and the prefix after the call differs from the prefix before it
C7_PrefixAlwaysChanges ==
    (OwnerGotId /\ last.before.seq = MAX_SEQ) =>
        last.rolled /\ n.pre # last.before.pre

\* C7, amended: from any reachable state whose sequence is MAX_SEQ one next()
\* rolls over and overwrites all of the prefix with the drawn symbols; the
\* prefix differs from the one before when that was the all-zero sentinel
C7_RolloverRedrawsPrefix ==
    (OwnerGotId /\ last.before.seq = MAX_SEQ) =>
        /\ last.rolled
        /\ \A i \in 1..PRE_LEN :
              n.pre[i] = ALPHABET[(last.drawn.samples[i] % BASE) + 1]
        /\ last.before.pre = ZeroPrefix => n.pre # last.before.pre

\* a call from sequence MAX_SEQ and an already randomized prefix has returned
C7_Witness ==
    /\ OwnerGotId
    /\ last.before.seq = MAX_SEQ
    /\ last.before.pre # ZeroPrefix

\* C8: a panic inside NUID::next poisons the lock, the lock stays poisoned, and
\* from then on every caller blocked in lock() panics, and no call enters
\* NUID::next, returns an identifier or changes the shared generator
C8_PoisonIsFatal ==
    /\ [](\A t \in Threads : panic[t] \in {"rng", "overflow"} => poisoned)
    /\ \A t \in Threads :
          (poisoned /\ pc[t] = "lock") ~> (pc[t] = "dead" /\ panic[t] = "poison")
    /\ [](poisoned => \A t \in Threads : pc[t] \notin InCore)
    /\ [][poisoned =>
            /\ poisoned'
            /\ returned' = returned
            /\ GLOBAL_NUID' = GLOBAL_NUID
            /\ \A t \in Threads :
                  (pc[t] = "lock" /\ pc'[t] # "lock") =>
                      (pc'[t] = "dead" /\ panic'[t] = "poison")]_vars

\* one thread panicked inside NUID::next and a later caller on the poison
C8_Witness ==
    \E t \in Threads, u \in Threads : panic[t] = "rng" /\ panic[u] = "poison"

\* C9: unless a holder panics, a thread blocked in lock() gets the lock and
\* returns; a returning call made exactly one increment and gives the lock
\* back; and every call started is in progress, returned or panicked
C9_NoLostOrStuckCall ==
    /\ \A t \in Threads : (pc[t] = "lock") ~> (pc[t] = "idle" \/ poisoned)
    /\ [](\A t \in Threads : pc[t] = "unlock" => adds[t] = 1)
    /\ [](\A k \in 1..Len(returned) : returned[k].adds = 1)
    /\ [][\A t \in Threads :
            (pc[t] = "unlock" /\ pc'[t] = "idle") =>
                (holder' = NoThread /\ Len(returned') = Len(returned) + 1)]_vars
    /\ [](started = Len(returned)
                  + Cardinality({t \in Threads : pc[t] \notin {"idle"}}))

\* both threads were returned an identifier, no lock holder having panicked
C9_Witness ==
    /\ ~poisoned
    /\ Len(returned) = 2
    /\ returned[1].by # returned[2].by
    /\ \A t \in Threads : pc[t] = "idle"

\* C10: every identifier returned has exactly 22 bytes and its first 12 are
\* the generator's prefix as it stands when the call returns
C10_LengthAndPrefix ==
    /\ OwnerGotId => (Len(last.id) = TOTAL_LEN /\ Prefix(last.id) = n.pre)
    /\ \A t \in Threads :
          pc[t] = "unlock" =>
              /\ Len(buffer[t]) = TOTAL_LEN
              /\ Prefix(buffer[t]) = GLOBAL_NUID.pre
    /\ \A k \in 1..Len(returned) :
          /\ Len(returned[k].id) = TOTAL_LEN
          /\ Prefix(returned[k].id) = returned[k].gen.pre

\* a call that replaced an already randomized prefix has returned
C10_Witness ==
    /\ OwnerGotId /\ last.rolled
    /\ last.before.pre # ZeroPrefix
    /\ last.before.pre # n.pre

\* C11: right after every next() that returns, with or without a rollover, the
\* sequence is below MAX_SEQ; a live generator at rest has a sequence of
\* MAX_SEQ or more only as the sentinel of NUID::new(), before any call
C11_SequenceBound ==
    /\ OwnerGotId => LessU64(n.seq, MAX_SEQ)
    /\ (~nDead /\ seq_exhausted(n)) =>
          (nCalls = 0 /\ n.seq = MAX_SEQ /\ n.inc = U64(0))
    /\ \A k \in 1..Len(returned) : LessU64(returned[k].gen.seq, MAX_SEQ)
    /\ \A t \in Threads :
          pc[t] \in {"read", "fill", "unlock"} => LessU64(GLOBAL_NUID.seq, MAX_SEQ)
    /\ (holder = NoThread /\ ~poisoned /\ seq_exhausted(GLOBAL_NUID)) =>
          (returned = <<>> /\ GLOBAL_NUID = NUID_new)

\* a call without rollover has returned with the largest sequence, MAX_SEQ - 1
C11_Witness ==
    /\ OwnerGotId /\ ~last.rolled /\ ~nFixture
    /\ n.seq = SubU64(MAX_SEQ, U64(1))

\* position of a byte in ALPHABET, counted from 0 as the source indexes it
AlphabetIndex(b) == (CHOOSE i \in 1..BASE : ALPHABET[i] = b) - 1

\* the number a most-significant-first string of alphabet symbols stands for
DecodeDigits[ds \in Seq(AlphabetBytes)] ==
    IF ds = <<>> THEN U64(0)
    ELSE MulAddU64(DecodeDigits[SubSeq(ds, 1, Len(ds) - 1)], BASE,
                   AlphabetIndex(ds[Len(ds)]))

\* the sequence digits of an identifier: its last TOTAL_LEN - PRE_LEN bytes
SeqDigits(id) == SubSeq(id, PRE_LEN + 1, TOTAL_LEN)

\* C12: the last ten bytes of a returned identifier are the base-62 rendering,
\* most significant digit first, of the generator's sequence after the call
\* (0 gives "0000000000", 61 gives "000000000z"), and rendering leaves the
\* generator's sequence as the call's addition or reseed set it
C12_EncodingCorrect ==
    /\ encode(U64(0), TOTAL_LEN - PRE_LEN) = [i \in 1..(TOTAL_LEN - PRE_LEN) |-> 48]
    /\ encode(U64(61), TOTAL_LEN - PRE_LEN) =
          [i \in 1..(TOTAL_LEN - PRE_LEN) |-> IF i = TOTAL_LEN - PRE_LEN THEN 122 ELSE 48]
    /\ OwnerGotId => DecodeDigits[SeqDigits(last.id)] = n.seq
    /\ \A k \in 1..Len(returned) :
          DecodeDigits[SeqDigits(returned[k].id)] = returned[k].gen.seq

\* the same statement on a build whose usize is as wide as the sequence
C12_EncodingCorrectWide == usizeBits = 64 => C12_EncodingCorrect

\* a call has returned a sequence that does not fit 32 bits
C12_WideSequenceReturned ==
    OwnerGotId /\ ~LessU64(n.seq, <<0, 0, 1, 0>>)

\* C13: in every state reached from NUID::new() through next() calls the sum
\* sequence + increment fits 64 bits, so `self.seq += self.inc` never wraps
\* and never panics on overflow
C13_NoOverflow ==
    /\ AddCarry(n.seq, n.inc) = 0
    /\ AddCarry(GLOBAL_NUID.seq, GLOBAL_NUID.inc) = 0
    /\ AddCarry(last.before.seq, last.before.inc) = 0
    /\ last.op = "panic" => last.rolled
    /\ \A t \in Threads : panic[t] # "overflow"
    /\ LessU64(n.seq, AddU64(MAX_SEQ, U64(MAX_INC)))
    /\ LessU64(GLOBAL_NUID.seq, AddU64(MAX_SEQ, U64(MAX_INC)))

\* a call has added the largest increment to the largest sequence at rest
C13_Witness ==
    /\ last.op = "next"
    /\ last.before.seq = SubU64(MAX_SEQ, U64(1))
    /\ last.before.inc = U64(MAX_INC - 1)

\* the number encoded in the sequence digits of an identifier
EncodedSeq(id) == DecodeDigits[SeqDigits(id)]

\* C14: between two rollovers the sequence encoded in each identifier is
\* strictly greater than the one encoded in the identifier before it, so the
\* identifiers of one prefix epoch are pairwise distinct
C14_MonotonicInEpoch ==
    /\ (OwnerGotId /\ ~last.rolled /\ ~nFixture) =>
          LessU64(AsUsize(last.before.seq, usizeBits), EncodedSeq(last.id))
    /\ \A j, k \in 1..Len(returned) :
          (j < k /\ returned[j].epoch = returned[k].epoch) =>
              /\ LessU64(EncodedSeq(returned[j].id), EncodedSeq(returned[k].id))
              /\ returned[j].id # returned[k].id

\* the same statement on a build whose usize is as wide as the sequence
C14_MonotonicInEpochWide == usizeBits = 64 => C14_MonotonicInEpoch

\* two identifiers of one epoch have been handed out from the shared generator
C14_TwoInOneEpoch ==
    \E j, k \in 1..Len(returned) : j < k /\ returned[j].epoch = returned[k].epoch

\* MIN_INC <= inc < MAX_INC
IncInRange(nu) ==
    ~LessU64(nu.inc, U64(MIN_INC)) /\ LessU64(nu.inc, U64(MAX_INC))

\* C15: once the first next() has returned the increment lies in
\* [MIN_INC, MAX_INC) in every state, and the increment changes only inside a
\* next() call that takes the rollover path
C15_IncrementRangeAndStability ==
    /\ []((nCalls >= 1 /\ ~nFixture /\ ~(nDead /\ nCalls = 1)) => IncInRange(n))
    /\ [](epoch >= 1 => IncInRange(GLOBAL_NUID))
    /\ [](\A k \in 1..Len(returned) : IncInRange(returned[k].gen))
    /\ [][n.inc' # n.inc =>
             (last'.op = "next" /\ last'.rolled /\ last'.before = n)]_vars
    /\ [][GLOBAL_NUID.inc' # GLOBAL_NUID.inc =>
             (\E t \in Threads :
                 holder = t /\ pc[t] = "reset" /\ seq_exhausted(GLOBAL_NUID))]_vars

\* a rollover after the first call has replaced one increment by another
C15_Witness ==
    /\ OwnerGotId /\ last.rolled /\ nCalls >= 2
    /\ IncInRange(last.before) /\ n.inc # last.before.inc

\* C16: a next() from a state with sequence + increment < MAX_SEQ consumes no
\* randomness: the identifier it returns and the state it leaves are functions
\* of the state before the call alone (on one build), so two generators in the
\* same such state return the same identifier and end in the same state; only
\* calls on the rollover path carry random draws
C16_DeterministicOffRollover ==
    /\ (OwnerGotId /\ SumBelowMax(last.before)) =>
          /\ ~last.rolled
          /\ last.drawn = NoDraw
          /\ n = add_inc(last.before)
          /\ last.id = fill(last.before.pre,
                            AsUsize(AddU64(last.before.seq, last.before.inc),
                                    usizeBits))
    /\ (OwnerGotId /\ last.drawn # NoDraw) =>
          (last.rolled /\ ~SumBelowMax(last.before))
    /\ \A k \in 2..Len(returned) :
          SumBelowMax(returned[k - 1].gen) =>
              /\ returned[k].epoch = returned[k - 1].epoch
              /\ returned[k].gen = add_inc(returned[k - 1].gen)
              /\ returned[k].id = fill(returned[k - 1].gen.pre,
                                       AsUsize(AddU64(returned[k - 1].gen.seq,
                                                      returned[k - 1].gen.inc),
                                               usizeBits))

\* a call without rollover has returned after an earlier call drew the state
C16_Witness ==
    OwnerGotId /\ SumBelowMax(last.before) /\ ~nFixture /\ nCalls >= 2

\* GLOBAL_NUID.lock().unwrap() would hand out the guard: nobody holds the lock
\* and it is not poisoned
Inspectable == holder = NoThread /\ ~poisoned

AlphabetMin == CHOOSE b \in AlphabetBytes : \A c \in AlphabetBytes : b <= c
AlphabetMax == CHOOSE b \in AlphabetBytes : \A c \in AlphabetBytes : c <= b

\* the owner holds a generator exactly as NUID::new() returned it
FreshFromNew == usage = "owned" /\ last.op = "new" /\ nCalls = 0 /\ ~nFixture

\* C18: a generator returned by NUID::new() has, before any next(), every one
\* of its PRE_LEN prefix bytes between the smallest and the largest byte of
\* the alphabet ('0' and 'z')
C18_NewPrefixInRange ==
    FreshFromNew =>
        \A j \in 1..PRE_LEN : AlphabetMin <= n.pre[j] /\ n.pre[j] <= AlphabetMax

\* the assertion of test proper_prefix as written, with `||`: true of any byte
C18_TestAssertionAsWritten ==
    FreshFromNew =>
        \A j \in 1..PRE_LEN : n.pre[j] >= AlphabetMin \/ n.pre[j] <= AlphabetMax

\* every byte the Alphanumeric distribution can deliver: the ASCII codes of
\* A-Z, a-z and 0-9
Alphanumeric == (65..90) \cup (97..122) \cup (48..57)

\* the symbols randomize_prefix can store
PrefixSymbols == {prefix_symbol(b) : b \in Alphanumeric}

\* the alphabet symbols '0' '1' '2' 'T' 'U' 'V' 'W' 'X' 'Y' 'z'
NeverInPrefix == {48, 49, 50, 84, 85, 86, 87, 88, 89, 122}

\* C19: randomize_prefix stores ALPHABET[n mod BASE] for the sample byte n, so
\* every prefix symbol has an alphabet index in 3..28 or 35..60: only 52 of the
\* 62 symbols can occur in a prefix, and '0' '1' '2' 'T' 'U' 'V' 'W' 'X' 'Y'
\* 'z' never occur in the first PRE_LEN bytes of an identifier
C19_PrefixSymbolSet ==
    /\ SampleChoices \subseteq Alphanumeric
    /\ \A b \in Alphanumeric :
          AlphabetIndex(prefix_symbol(b)) \in (3..28) \cup (35..60)
    /\ {AlphabetIndex(y) : y \in PrefixSymbols} = (3..28) \cup (35..60)
    /\ Cardinality(PrefixSymbols) = 52
    /\ Cardinality(AlphabetBytes) = BASE
    /\ AlphabetBytes \ PrefixSymbols = NeverInPrefix
    /\ OwnerGotId /\ ~nFixture =>
          \A i \in 1..PRE_LEN :
              last.id[i] \in PrefixSymbols /\ last.id[i] \notin NeverInPrefix
    /\ last.op = "randomize_prefix" =>
          \A i \in 1..PRE_LEN : n.pre[i] \in PrefixSymbols
    /\ \A k \in 1..Len(returned) : \A i \in 1..PRE_LEN :
          returned[k].id[i] \in PrefixSymbols /\ returned[k].id[i] \notin NeverInPrefix

\* an identifier has been returned whose prefix came from samples '0' and 'z'
C19_Witness ==
    /\ OwnerGotId /\ last.rolled
    /\ {last.drawn.samples[i] : i \in 1..PRE_LEN} = {48, 122}
    /\ {last.id[i] : i \in 1..PRE_LEN} = {prefix_symbol(48), prefix_symbol(122)}

\* calls of next() until the rollover, the rolling call included: the least k
\* with seq + k * inc >= MAX_SEQ, i.e. ceil((MAX_SEQ - seq) / inc)
CallsLeft(nu) ==
    DivU64(AddU64(SubU64(MAX_SEQ, nu.seq), SubU64(nu.inc, U64(1))), nu.inc[1])

\* ceil(MAX_SEQ / MIN_INC), the longest an epoch can last
MaxEpochCalls == DivU64(AddU64(MAX_SEQ, U64(MIN_INC - 1)), MIN_INC)

\* the owner's latest call returned after a rollover
RolledOver == last.op = "next" /\ last.rolled

\* C20: the increment is at least MIN_INC, so every call without rollover
\* brings the generator one call closer to the rollover, which comes within
\* ceil(MAX_SEQ / MIN_INC) calls of a reseed; on a generator whose next() is
\* called again and again (and keeps returning) the rollover happens
\* infinitely often
C20_RolloverRecurs ==
    /\ []((usage \in OwnerUsages /\ ~nFixture /\ IncInRange(n)
           /\ LessU64(n.seq, MAX_SEQ)) =>
             /\ ~LessU64(CallsLeft(n), U64(1))
             /\ ~LessU64(MaxEpochCalls, CallsLeft(n)))
    /\ []((OwnerGotId /\ ~nFixture /\ IncInRange(last.before)) =>
             IF last.rolled
             THEN CallsLeft(last.before) = U64(1)
             ELSE /\ IncInRange(n)
                  /\ LessU64(U64(1), CallsLeft(last.before))
                  /\ CallsLeft(n) = SubU64(CallsLeft(last.before), U64(1)))
    /\ (usage = "loop") => ([]<>RolledOver \/ <>nDead)
    /\ (usage = "loop" /\ OwnerGotId /\ ~last.rolled) ~> (RolledOver \/ nDead)

\* an owner calling without end has rolled over again, from a sequence of
\* MAX_SEQ - 1 that only repeated additions of MIN_INC reach
C20_Witness ==
    /\ usage = "loop" /\ RolledOver /\ nCalls >= MaxOwnedCalls
    /\ IncInRange(last.before)
    /\ last.before.seq = SubU64(MAX_SEQ, U64(1))
    /\ last.before.inc = U64(MIN_INC)
====
